---- MODULE Spec2Model ----
(***************************************************************************)
(* Model of src/spotifytoken.js: the Semaphore (a FIFO mutex for async     *)
(* callers), SpotifyTokenHandler.handler0 (the cached-token coordinator    *)
(* with its fast path and its double check under the lock) and             *)
(* getAccessToken (one browser session per fetch, a 15 s deadline timer    *)
(* racing the "requestfinished" listener and the page.goto failure         *)
(* handler, all settling one Promise).                                     *)
(*                                                                         *)
(* Node runs one callback at a time, so every action below is one run of   *)
(* the code between two suspension points (await, timer, event).           *)
(* Each caller makes one request, and a request makes at most one fetch,   *)
(* so the fetch attempt of caller c is indexed by c.                       *)
(*                                                                         *)
(* The environment (playwright, the page, the clock) is nondeterministic:  *)
(* launch() and newPage() succeed or fail, the /api/token request is seen  *)
(* at any time while the listener is attached, its response is missing or  *)
(* not ok, unparseable, or a payload, page.goto() may reject at any time,  *)
(* and the timer callback runs at any time from its due time on. A         *)
(* callback that throws (page.addListener on an undefined page, delete on  *)
(* a null payload) ends there and the process goes on, as Node does when   *)
(* unhandled rejections only warn; a process that exits instead just stops *)
(* the behaviour at that state.                                            *)
(* Settling a Promise and resuming the code that awaits it are separate    *)
(* steps, so other callbacks may run in between.                           *)
(***************************************************************************)
EXTENDS Integers, Sequences, FiniteSets

\* ----------------------------------------------------------------- bounds
NumCallers == 3
MaxTicks == 1
MaxSessions == 2
MaxEvents == 1
LiveSessions == 1
MaxNowV == 4
ExpSpread == 3

\* ------------------------------------------------------ program constants
SafetyMargin == 10000
Deadline == 15000

Callers == 1..NumCallers
Events == 1..MaxEvents

VARIABLES
    now,        \* Date.now()
    ticks,      \* how often the clock has advanced (bounds the run)
    locked,     \* Semaphore._locked
    waiters,    \* Semaphore._waiters: the suspended callers, oldest first
    cache,      \* SpotifyTokenHandler.cachedAccessToken
    pc,         \* where each call of handler0 stands
    force,      \* isForce of each call
    result,     \* ctx.status / ctx.body of each call
    att,        \* the getAccessToken attempt of each call
    started,    \* the calls that invoked getAccessToken, in order
    acquired,   \* history: the call went through semaphore.acquire()
    releases,   \* history: how often the call invoked its release()
    early,      \* history: no call had returned when this one was issued
    recheck,    \* history: what token.valid() returned under the lock
    arrivals,   \* history: the calls that suspended in acquire(), in order
    grants,     \* history: the suspended calls resumed by _release(), in order
    vres        \* the value of token.valid() (specification SpecValid)

vars == <<now, ticks, locked, waiters, cache, pc, force, result, att, started,
          acquired, releases, early, recheck, arrivals, grants, vres>>

\* ------------------------------------------------------------------ values
\* cachedAccessToken is undefined until the first successful refresh.
Undefined == [kind |-> "undefined"]
\* The parsed token payload; hasExp is FALSE when the payload carries no
\* accessTokenExpirationTimestampMs (the subtraction then yields NaN).
\* notes stands for the _notes field the endpoint adds.
Json(i, h, e, n) ==
    [kind |-> "json", id |-> i, hasExp |-> h, exp |-> e, notes |-> n]
EmptyBody == [kind |-> "empty"]

NoResult == [status |-> 0, body |-> Undefined]
OkResult(d) == [status |-> 200, body |-> d]
ErrResult == [status |-> 500, body |-> EmptyBody]

Pending == [kind |-> "pending"]
Resolved(d) == [kind |-> "ok", data |-> d]
Rejected(m) == [kind |-> "err", msg |-> m]

\* The expiry stamps the token endpoint answers with at time t: a token
\* already inside the safety margin, and one that leaves it a deadline later.
Lifetimes == {SafetyMargin, SafetyMargin + Deadline}
Payloads(i, t) == {Json(i, TRUE, t + l, TRUE) : l \in Lifetimes}

NoAttempt ==
    [stage |-> "none", outcome |-> Pending, settles |-> 0, closes |-> 0,
     processed |-> FALSE, timer |-> "none", due |-> 0, listening |-> FALSE,
     ev |-> [k \in Events |-> "none"], goto |-> "none"]

\* ------------------------------------------------------------- token proxy
\* Faulty variant of Valid: the margin compared with >= instead of >.
ValidNonStrict(data, t) ==
    /\ data.kind = "json"
    /\ data.hasExp
    /\ data.exp - SafetyMargin >= t

\* token.valid(): this.data?.accessTokenExpirationTimestampMs - 10000 > Date.now()
\* (undefined data and a missing stamp both give NaN, and NaN > t is false).
Valid(data, t) ==
    /\ data.kind = "json"
    /\ data.hasExp
    /\ data.exp - SafetyMargin > t

\* Faulty variant of FastPath: no check before the lock.
FastPathNever(f, data, t) == FALSE

\* if (!isForce && token.valid()) before the lock.
FastPath(f, data, t) == ~f /\ Valid(data, t)

\* Faulty variant of DoubleCheckHit: no re-check under the lock.
DoubleCheckNever(f, data, t) == FALSE

\* Faulty variant of DoubleCheckHit: the re-check forgets isForce.
DoubleCheckIgnoresForce(f, data, t) == Valid(data, t)

\* if (!isForce && token.valid()) under the lock ("double check").
DoubleCheckHit(f, data, t) == ~f /\ Valid(data, t)

\* ---------------------------------------------------------------- Semaphore
\* Faulty variant of SemAcquire: the lock is taken without looking at _locked.
SemAcquireUnchecked(c) ==
    /\ locked' = TRUE
    /\ pc' = [pc EXCEPT ![c] = "acq"]
    /\ UNCHANGED <<waiters, arrivals>>

\* acquire() called by c: queue behind the holder, or take the free lock.
\* Either way handler0 awaits the result, so c continues in a later step.
SemAcquire(c) ==
    IF locked
    THEN /\ waiters' = Append(waiters, c)
         /\ arrivals' = Append(arrivals, c)
         /\ pc' = [pc EXCEPT ![c] = "wait"]
         /\ UNCHANGED locked
    ELSE /\ locked' = TRUE
         /\ pc' = [pc EXCEPT ![c] = "acq"]
         /\ UNCHANGED <<waiters, arrivals>>

\* Faulty variant of Shift: pop() takes the newest waiter.
Pop(w) == <<w[Len(w)], SubSeq(w, 1, Len(w) - 1)>>

\* this._waiters.shift(): the oldest waiter, and the queue without it.
Shift(w) == <<Head(w), Tail(w)>>

\* Faulty variant of SemRelease: the lock is marked free on hand-off too.
SemReleaseUnlocks(p) ==
    /\ locked' = FALSE
    /\ IF waiters # <<>>
       THEN /\ waiters' = Shift(waiters)[2]
            /\ grants' = Append(grants, Shift(waiters)[1])
            /\ pc' = [p EXCEPT ![Shift(waiters)[1]] = "acq"]
       ELSE /\ pc' = p
            /\ UNCHANGED <<waiters, grants>>

\* _release(), p being pc after the releasing call's own step: hand the lock
\* to the next waiter (locked stays true) or mark it free.
SemRelease(p) ==
    IF waiters # <<>>
    THEN /\ waiters' = Shift(waiters)[2]
         /\ grants' = Append(grants, Shift(waiters)[1])
         /\ pc' = [p EXCEPT ![Shift(waiters)[1]] = "acq"]
         /\ UNCHANGED locked
    ELSE /\ locked' = FALSE
         /\ pc' = p
         /\ UNCHANGED <<waiters, grants>>

\* ------------------------------------------------------------ getAccessToken
\* Faulty variant of Settle: a later resolve()/reject() replaces the outcome.
SettleOverwrite(a, o) == [a EXCEPT !.outcome = o, !.settles = @ + 1]

\* resolve()/reject() of the attempt's Promise: only the first call settles it.
Settle(a, o) ==
    IF a.outcome = Pending
    THEN [a EXCEPT !.outcome = o, !.settles = @ + 1]
    ELSE [a EXCEPT !.settles = @ + 1]

\* browser.close()
Close(a) == [a EXCEPT !.closes = @ + 1]

\* delete json._notes
StripNotes(j) == [j EXCEPT !.notes = FALSE]

\* The executor up to its first await: playwright.chromium.launch().
NewAttempt == [NoAttempt EXCEPT !.stage = "launch"]

\* launch() settled. Without a browser the attempt is rejected and returns.
AfterLaunch(a, ok) ==
    IF ok
    THEN [a EXCEPT !.stage = "newpage"]
    ELSE Settle([a EXCEPT !.stage = "end"], Rejected("Failed to launch browser"))

\* browser.newPage() settled. Without a page the code closes the browser and
\* rejects but does not return: it goes on to arm the timer, and
\* page.addListener on the undefined page throws, which ends the executor.
AfterNewPage(a, ok, t) ==
    IF ok
    THEN [a EXCEPT !.stage = "run", !.timer = "armed", !.due = t + Deadline,
                   !.listening = TRUE, !.goto = "pending"]
    ELSE [Settle(Close(a), Rejected("Failed to open new page"))
             EXCEPT !.stage = "threw", !.timer = "armed", !.due = t + Deadline]

\* Faulty variant of OnDeadline: the timer leaves an attempt alone once the
\* token request has been seen.
OnDeadlineUnlessProcessed(a) ==
    IF a.processed
    THEN [a EXCEPT !.timer = "fired"]
    ELSE Settle(Close([a EXCEPT !.timer = "fired"]),
                Rejected("Token fetch exceeded deadline"))

\* The setTimeout callback: it is never cancelled and checks no flag before
\* closing the browser and rejecting.
OnDeadline(a) ==
    Settle(Close([a EXCEPT !.timer = "fired"]),
           Rejected("Token fetch exceeded deadline"))

\* "requestfinished" for a URL with /api/token, up to await event.response().
OnTokenRequest(a, k) ==
    [a EXCEPT !.processed = TRUE, !.ev[k] = "resp"]

\* event.response() settled; good is response && response.ok().
OnResponse(a, k, good) ==
    IF good
    THEN [a EXCEPT !.ev[k] = "json"]
    ELSE Settle(Close([a EXCEPT !.ev[k] = "done", !.listening = FALSE]),
                Rejected("Invalid response from Spotify."))

\* response.json() settled with j, null when the body does not parse: the
\* listeners are removed and the browser closed, then delete json._notes
\* throws on null and the listener ends without settling.
OnJson(a, k, j) ==
    LET b == Close([a EXCEPT !.ev[k] = "done", !.listening = FALSE])
    IN  IF j.kind = "json" THEN Settle(b, Resolved(StripNotes(j))) ELSE b

\* page.goto() rejected.
OnGotoFailed(a) ==
    IF ~a.processed
    THEN Settle(Close([a EXCEPT !.goto = "failed"]), Rejected("Failed to goto URL"))
    ELSE [a EXCEPT !.goto = "failed"]

\* response.json() failed: .catch(_ => null)
JsonNull == [kind |-> "null"]

\* ---------------------------------------------------------------- handler0
\* Faulty variant of RefreshResult: a failed refresh answers with the cached token.
RefreshResultStale(o) ==
    IF o.kind = "ok" THEN OkResult(o.data) ELSE OkResult(cache)

\* What the call answers once its attempt has settled with outcome o:
\* ctx.body = await token.refresh(), or ctx.status = 500 and ctx.body = {}.
RefreshResult(o) == IF o.kind = "ok" THEN OkResult(o.data) ELSE ErrResult

\* Faulty variant of RefreshCache: a failed refresh empties the slot.
RefreshCacheClears(o, old) == IF o.kind = "ok" THEN o.data ELSE Undefined

\* The cache after token.refresh(): self[this.type] = data on success only.
RefreshCache(o, old) == IF o.kind = "ok" THEN o.data ELSE old

\* Faulty variant of ReleaseCalls: release() at the end of the try block only.
ReleaseOnSuccessOnly(o) == IF o.kind = "ok" THEN 1 ELSE 0

\* How often the call invokes release() after the try block (finally).
ReleaseCalls(o) == 1

\* ------------------------------------------------------------------ actions
Init ==
    /\ now = 0
    /\ ticks = 0
    /\ locked = FALSE
    /\ waiters = <<>>
    /\ cache = Undefined
    /\ pc = [c \in Callers |-> "idle"]
    /\ force = [c \in Callers |-> FALSE]
    /\ result = [c \in Callers |-> NoResult]
    /\ att = [c \in Callers |-> NoAttempt]
    /\ started = <<>>
    /\ acquired = [c \in Callers |-> FALSE]
    /\ releases = [c \in Callers |-> 0]
    /\ early = [c \in Callers |-> FALSE]
    /\ recheck = [c \in Callers |-> "none"]
    /\ arrivals = <<>>
    /\ grants = <<>>
    /\ vres = "none"

\* handler0 from its entry to its first await: the fast path, or acquire().
\* Callers are numbered in the order in which their requests arrive.
Call(c, f) ==
    /\ pc[c] = "idle"
    /\ \A d \in Callers : d < c => pc[d] # "idle"
    /\ force' = [force EXCEPT ![c] = f]
    /\ early' = [early EXCEPT ![c] = \A d \in Callers : pc[d] # "done"]
    /\ IF FastPath(f, cache, now)
       THEN /\ result' = [result EXCEPT ![c] = OkResult(cache)]
            /\ pc' = [pc EXCEPT ![c] = "done"]
            /\ UNCHANGED <<locked, waiters, arrivals, acquired>>
       ELSE /\ SemAcquire(c)
            /\ acquired' = [acquired EXCEPT ![c] = TRUE]
            /\ UNCHANGED result
    /\ UNCHANGED <<now, ticks, cache, att, started, releases, recheck, grants, vres>>

\* handler0 resumed with the lock: the double check, then either the cached
\* token and release() (finally), or token.refresh() up to its first await.
Resume(c) ==
    /\ pc[c] = "acq"
    /\ recheck' = [recheck EXCEPT ![c] =
                      IF Valid(cache, now) THEN "valid" ELSE "invalid"]
    /\ IF DoubleCheckHit(force[c], cache, now)
       THEN /\ result' = [result EXCEPT ![c] = OkResult(cache)]
            /\ releases' = [releases EXCEPT ![c] = @ + 1]
            /\ SemRelease([pc EXCEPT ![c] = "done"])
            /\ UNCHANGED <<att, started>>
       ELSE /\ att' = [att EXCEPT ![c] = NewAttempt]
            /\ started' = Append(started, c)
            /\ pc' = [pc EXCEPT ![c] = "fetch"]
            /\ UNCHANGED <<result, releases, locked, waiters, grants>>
    /\ UNCHANGED <<now, ticks, cache, force, acquired, early, arrivals, vres>>

\* handler0 resumed by the settled attempt: the cache write of refresh()'s
\* then-callback, the answer, and release() in the finally block.
RefreshDone(c) ==
    /\ pc[c] = "fetch"
    /\ att[c].outcome # Pending
    /\ cache' = RefreshCache(att[c].outcome, cache)
    /\ result' = [result EXCEPT ![c] = RefreshResult(att[c].outcome)]
    /\ releases' = [releases EXCEPT ![c] = @ + ReleaseCalls(att[c].outcome)]
    /\ IF ReleaseCalls(att[c].outcome) > 0
       THEN SemRelease([pc EXCEPT ![c] = "done"])
       ELSE /\ pc' = [pc EXCEPT ![c] = "done"]
            /\ UNCHANGED <<locked, waiters, grants>>
    /\ UNCHANGED <<now, ticks, force, att, started, acquired, early, recheck,
                   arrivals, vres>>

\* Everything an attempt's own callbacks leave alone.
AttemptFrame ==
    UNCHANGED <<now, ticks, locked, waiters, cache, pc, force, result, started,
                acquired, releases, early, recheck, arrivals, grants, vres>>

\* The attempts that got a browser.
Sessions == {d \in Callers : att[d].stage \in {"newpage", "run", "threw"}}

LaunchDone(c, ok) ==
    /\ att[c].stage = "launch"
    /\ ok => Cardinality(Sessions) < MaxSessions
    /\ att' = [att EXCEPT ![c] = AfterLaunch(att[c], ok)]
    /\ AttemptFrame

NewPageDone(c, ok) ==
    /\ att[c].stage = "newpage"
    /\ att' = [att EXCEPT ![c] = AfterNewPage(att[c], ok, now)]
    /\ AttemptFrame

\* Faulty variant of TimerFire: the browser and the reject function are kept
\* in one place shared by all attempts, so the callback acts on the newest.
TimerFireShared(c) ==
    /\ att[c].timer = "armed"
    /\ now >= att[c].due
    /\ LET n == started[Len(started)]
       IN  att' = [[att EXCEPT ![c].timer = "fired"] EXCEPT ![n] =
                      Settle(Close(@), Rejected("Token fetch exceeded deadline"))]
    /\ AttemptFrame

\* The timer runs its callback once 15000 ms have passed.
TimerFire(c) ==
    /\ att[c].timer = "armed"
    /\ now >= att[c].due
    /\ att' = [att EXCEPT ![c] = OnDeadline(att[c])]
    /\ AttemptFrame

\* The page reports the k-th finished /api/token request while the listener
\* is attached. (Requests for other URLs return at once and change nothing.)
TokenRequest(c, k) ==
    /\ att[c].stage = "run"
    /\ att[c].listening
    /\ att[c].ev[k] = "none"
    /\ \A j \in Events : j < k => att[c].ev[j] # "none"
    /\ att' = [att EXCEPT ![c] = OnTokenRequest(att[c], k)]
    /\ AttemptFrame

ResponseDone(c, k, good) ==
    /\ att[c].ev[k] = "resp"
    /\ att' = [att EXCEPT ![c] = OnResponse(att[c], k, good)]
    /\ AttemptFrame

JsonDone(c, k, j) ==
    /\ att[c].ev[k] = "json"
    /\ att' = [att EXCEPT ![c] = OnJson(att[c], k, j)]
    /\ AttemptFrame

GotoFailed(c) ==
    /\ att[c].goto = "pending"
    /\ att' = [att EXCEPT ![c] = OnGotoFailed(att[c])]
    /\ AttemptFrame

\* The clock moves on.
Advance ==
    /\ ticks < MaxTicks
    /\ now' = now + Deadline
    /\ ticks' = ticks + 1
    /\ UNCHANGED <<locked, waiters, cache, pc, force, result, att, started,
                   acquired, releases, early, recheck, arrivals, grants, vres>>

Next ==
    \/ \E c \in Callers, f \in BOOLEAN : Call(c, f)
    \/ \E c \in Callers : Resume(c)
    \/ \E c \in Callers : RefreshDone(c)
    \/ \E c \in Callers, ok \in BOOLEAN : LaunchDone(c, ok)
    \/ \E c \in Callers, ok \in BOOLEAN : NewPageDone(c, ok)
    \/ \E c \in Callers : TimerFire(c)
    \/ \E c \in Callers, k \in Events : TokenRequest(c, k)
    \/ \E c \in Callers, k \in Events, good \in BOOLEAN : ResponseDone(c, k, good)
    \/ \E c \in Callers, k \in Events :
          \E j \in {JsonNull} \cup Payloads(c, now) : JsonDone(c, k, j)
    \/ \E c \in Callers : GotoFailed(c)
    \/ Advance

Spec == Init /\ [][Next]_vars

\* ------------------------------------------------- token.valid() on its own
\* The cache slots and clock readings token.valid() is applied to.
ExpValues == (SafetyMargin - ExpSpread)..(SafetyMargin + MaxNowV + ExpSpread)

CacheValues ==
    {Undefined, Json(0, FALSE, 0, FALSE)}
        \cup {Json(0, TRUE, e, FALSE) : e \in ExpValues}

InitValid ==
    /\ now \in 0..MaxNowV
    /\ cache \in CacheValues
    /\ ticks = 0
    /\ locked = FALSE
    /\ waiters = <<>>
    /\ pc = [c \in Callers |-> "idle"]
    /\ force = [c \in Callers |-> FALSE]
    /\ result = [c \in Callers |-> NoResult]
    /\ att = [c \in Callers |-> NoAttempt]
    /\ started = <<>>
    /\ acquired = [c \in Callers |-> FALSE]
    /\ releases = [c \in Callers |-> 0]
    /\ early = [c \in Callers |-> FALSE]
    /\ recheck = [c \in Callers |-> "none"]
    /\ arrivals = <<>>
    /\ grants = <<>>
    /\ vres = "none"

CheckValid ==
    /\ vres = "none"
    /\ vres' = IF Valid(cache, now) THEN "true" ELSE "false"
    /\ UNCHANGED <<now, ticks, locked, waiters, cache, pc, force, result, att,
                   started, acquired, releases, early, recheck, arrivals, grants>>

NextValid == CheckValid

SpecValid == InitValid /\ [][NextValid]_vars

\* ------------------------------------------------------------------ claims
Holders == {c \in Callers : pc[c] \in {"acq", "fetch"}}
Unsettled == {c \in Callers : att[c].stage # "none" /\ att[c].outcome = Pending}
Occurrences(q, c) == Cardinality({i \in 1..Len(q) : q[i] = c})

\* The calls issued so far form one burst of concurrent get(false) calls made
\* while the cache was empty or expired, and all of them have returned.
BurstCallers == {c \in Callers : pc[c] # "idle"}
BurstDone ==
    /\ BurstCallers # {}
    /\ \A c \in BurstCallers :
          pc[c] = "done" /\ ~force[c] /\ acquired[c] /\ early[c]

\* C1 as stated: a burst of N concurrent get(false) calls on an empty or
\* expired cache invokes the Fetcher exactly once in total and all N calls
\* resolve to the same result.
SingleFlightAsStated ==
    BurstDone =>
        /\ Len(started) = 1
        /\ \A c, d \in BurstCallers : result[c] = result[d]

\* C1 amended: in such a burst the Fetcher is invoked at least once; a call
\* whose re-check under the lock finds a valid Credential returns a cached
\* Credential without invoking the Fetcher, a call whose re-check finds none
\* invokes it once and answers with that invocation's own outcome; so when
\* the first invocation succeeds and its Credential is valid at every later
\* re-check, the Fetcher is invoked exactly once and all N calls resolve to
\* that one Credential.
SingleFlightAmended ==
    BurstDone =>
        /\ Len(started) >= 1
        /\ \A c \in BurstCallers :
              /\ recheck[c] = "valid" =>
                    /\ att[c].stage = "none"
                    /\ result[c].status = 200
                    /\ result[c].body.kind = "json"
              /\ recheck[c] = "invalid" =>
                    /\ Occurrences(started, c) = 1
                    /\ result[c] = RefreshResult(att[c].outcome)
        /\ LET first == started[1]
           IN  (/\ att[first].outcome.kind = "ok"
                /\ \A c \in BurstCallers \ {first} : recheck[c] = "valid")
               => /\ Len(started) = 1
                  /\ \A c \in BurstCallers :
                        result[c] = OkResult(att[first].outcome.data)

\* Three concurrent get(false) calls were served by one fetch.
SingleFlightWitness ==
    /\ BurstDone
    /\ BurstCallers = Callers
    /\ Len(started) = 1
    /\ \A c \in Callers : result[c] = OkResult(att[started[1]].outcome.data)

\* C2: at most one caller holds the Semaphore in any reachable state, and a
\* caller holds it only while the locked flag is set.
MutualExclusion ==
    /\ Cardinality(Holders) <= 1
    /\ Holders # {} => locked

\* One caller holds the lock while two others are suspended in acquire().
MutualExclusionWitness ==
    /\ Cardinality(Holders) = 1
    /\ Len(waiters) = 2

\* C3: the callers suspended in acquire() are granted the lock in the order
\* in which they called it: the grants are a prefix of the arrivals, and the
\* queue is exactly the arrivals not yet granted.
FifoFairness ==
    /\ Len(grants) <= Len(arrivals)
    /\ \A i \in 1..Len(grants) : grants[i] = arrivals[i]
    /\ waiters = SubSeq(arrivals, Len(grants) + 1, Len(arrivals))

\* Callers 2 and 3 queued behind caller 1 and were both granted the lock,
\* after fetches that ended differently.
FifoWitness ==
    /\ grants = <<2, 3>>
    /\ early[3]
    /\ att[1].outcome.kind = "err"
    /\ att[2].outcome.kind = "ok"

\* C4: a get(false) issued while the cache holds a valid Credential returns
\* that Credential in the same step, leaving the lock flag, the waiter queue,
\* the cache and every fetch attempt as they were.
FastPathPurity ==
    [][\A c \in Callers :
          (pc[c] = "idle" /\ pc'[c] # "idle" /\ ~force'[c] /\ Valid(cache, now))
          => /\ pc'[c] = "done"
             /\ result'[c] = OkResult(cache)
             /\ ~acquired'[c]
             /\ UNCHANGED <<locked, waiters, arrivals, cache, att, started>>]_vars

\* A get(false) was served from the cache while another call holds the lock
\* with its refresh in flight.
FastPathWitness ==
    \E c, d \in Callers :
        /\ pc[c] = "done" /\ ~force[c] /\ ~acquired[c]
        /\ result[c] = OkResult(cache)
        /\ pc[d] = "fetch" /\ att[d].outcome = Pending
        /\ locked

\* C5: every get(true) that has returned invoked the Fetcher exactly once,
\* whatever the cache held, and no two fetch attempts are unsettled at once.
ForcedRefresh ==
    /\ \A c \in Callers :
          (pc[c] = "done" /\ force[c]) =>
              /\ Occurrences(started, c) = 1
              /\ att[c].outcome # Pending
    /\ \A c \in Callers : Occurrences(started, c) <= 1
    /\ Cardinality(Unsettled) <= 1
    /\ Cardinality({c \in Callers : pc[c] = "fetch"}) <= 1

\* Two concurrent get(true) calls: the second found a valid Credential under
\* the lock and still fetched.
ForcedRefreshWitness ==
    \E c, d \in Callers :
        /\ c # d /\ force[c] /\ force[d]
        /\ pc[c] = "done" /\ pc[d] = "done"
        /\ early[d]
        /\ recheck[d] = "valid"
        /\ att[c].outcome.kind = "ok" /\ att[d].outcome.kind = "ok"

\* C6: token.valid() is true exactly when expiry - 10000 > now: false at a
\* distance of 10000 ms and of 9999 ms, true at 10001 ms, false for an empty
\* slot and for a payload without an expiry stamp.
ValidityBoundary ==
    vres # "none" =>
        /\ vres = "true" <=>
              (cache.kind = "json" /\ cache.hasExp /\ cache.exp - now >= 10001)
        /\ cache = Undefined => vres = "false"
        /\ (cache.kind = "json" /\ cache.hasExp) =>
              /\ cache.exp - now = 10001 => vres = "true"
              /\ cache.exp - now = 10000 => vres = "false"
              /\ cache.exp - now = 9999 => vres = "false"

\* valid() answered true one millisecond outside the safety margin.
ValidityWitness ==
    /\ vres = "true"
    /\ cache.exp - now = 10001
    /\ now > 0

\* C7: a failed refresh leaves the cache as it was and answers with the
\* error; a get(false) returns the cached Credential only when it is valid;
\* and a get(false) that finds the cache invalid under the lock starts a
\* fetch attempt, whatever earlier attempts did.
NoServeStale ==
    [][\A c \in Callers :
          /\ (pc[c] = "fetch" /\ pc'[c] = "done" /\ att[c].outcome.kind = "err")
             => (cache' = cache /\ result'[c] = ErrResult)
          /\ (pc[c] \in {"idle", "acq"} /\ pc'[c] = "done" /\ ~force'[c])
             => (Valid(cache, now) /\ result'[c] = OkResult(cache))
          /\ (pc[c] = "acq" /\ pc'[c] # "acq" /\ ~force[c] /\ ~Valid(cache, now))
             => (att'[c].stage = "launch" /\ started' = Append(started, c))]_vars

\* The cache holds an expired Credential A; a later get(false) failed to
\* refresh it, got the error, and the get(false) after it fetched again.
NoServeStaleWitness ==
    /\ Len(started) = 3
    /\ LET a == started[1]
           b == started[2]
           c == started[3]
       IN  /\ att[a].outcome = Resolved(cache)
           /\ ~Valid(cache, now)
           /\ ~force[b] /\ att[b].outcome.kind = "err"
           /\ pc[b] = "done" /\ result[b] = ErrResult
           /\ ~force[c] /\ att[c].stage # "none"

\* C8: once an attempt has settled, its outcome never changes, whichever of
\* the timer, the listener and the goto handler runs afterwards; the cache is
\* written only by the call that fetched, with the payload its attempt
\* settled with; and a call that fetched answers with that one outcome.
ExactlyOnceSettlement ==
    [][/\ \A c \in Callers :
             /\ att[c].outcome # Pending => att'[c].outcome = att[c].outcome
             /\ (pc'[c] = "done" /\ att'[c].stage # "none")
                => result'[c] = RefreshResult(att'[c].outcome)
       /\ cache' # cache =>
             \E c \in Callers :
                 /\ pc[c] = "fetch" /\ pc'[c] = "done"
                 /\ att[c].outcome = Resolved(cache')]_vars

\* One attempt resolved before its deadline fired, another was rejected by
\* the deadline before its token response was read.
ExactlyOnceWitness ==
    \E c, d \in Callers :
        /\ att[c].outcome.kind = "ok" /\ att[c].timer = "fired"
        /\ att[c].settles = 2 /\ result[c].status = 200
        /\ att[d].outcome = Rejected("Token fetch exceeded deadline")
        /\ att[d].ev[1] = "done" /\ att[d].settles = 2
        /\ result[d] = ErrResult

\* C9 as stated: browser.close() is called exactly once per attempt that
\* opened a session, and a settled attempt has no listener attached.
ReleasedExactlyOnce ==
    \A c \in Callers :
        /\ att[c].closes <= 1
        /\ (att[c].stage = "run" /\ att[c].outcome # Pending) =>
              (att[c].closes = 1 /\ ~att[c].listening)

\* C10: a call that went through acquire() has invoked release() exactly
\* once when it returns and never more than once; a call that did not, never;
\* and when every call has returned the lock is free with no waiter.
ReleaseOnEveryPath ==
    /\ \A c \in Callers :
          /\ releases[c] <= 1
          /\ pc[c] # "done" => releases[c] = 0
          /\ pc[c] = "done" => releases[c] = (IF acquired[c] THEN 1 ELSE 0)
    /\ (\A c \in Callers : pc[c] = "done") => (~locked /\ waiters = <<>>)

\* All calls have returned: one after a failed refresh, one after a
\* successful one, one with the Credential the double check found.
ReleaseWitness ==
    /\ \A c \in Callers : pc[c] = "done" /\ acquired[c]
    /\ \E c \in Callers : att[c].outcome.kind = "err"
    /\ \E c \in Callers : att[c].outcome.kind = "ok"
    /\ \E c \in Callers : att[c].stage = "none" /\ recheck[c] = "valid"
    /\ ~locked

\* C11: at most one fetch attempt is unsettled in any reachable state, the
\* call it belongs to holds the lock, and an attempt is started only by the
\* one call that holds the lock at that moment.
OneRefreshInFlight ==
    [][/\ Cardinality(Unsettled') <= 1
       /\ Unsettled' \subseteq Holders'
       /\ started' # started =>
             \E c \in Callers :
                 /\ started' = Append(started, c)
                 /\ locked /\ Holders = {c}
                 /\ Unsettled = {}]_vars

\* A get(true) fetches while a get(false) waits for the lock and the timer
\* of the previous, settled attempt is still armed.
OneRefreshWitness ==
    \E a, c, d \in Callers :
        /\ pc[a] = "done" /\ att[a].outcome.kind = "ok" /\ att[a].timer = "armed"
        /\ force[c] /\ pc[c] = "fetch" /\ att[c].stage = "run"
        /\ att[c].outcome = Pending
        /\ ~force[d] /\ pc[d] = "wait"

\* C12: every step that changes the cache slot is taken by the one call that
\* holds the lock; a step of any other call, or of a call before it is
\* granted the lock or after it released it, leaves the slot unchanged.
CacheWrittenUnderLock ==
    [][cache' # cache =>
          \E c \in Callers :
              /\ locked /\ Holders = {c}
              /\ pc[c] = "fetch" /\ pc'[c] = "done"
              /\ \A d \in Callers \ {c} : pc'[d] # pc[d] => pc[d] = "wait"]_vars

\* The cache was written twice, by two calls in turn, and a third call read
\* it on the fast path without the lock.
CacheWriteWitness ==
    \E c, d, r \in Callers :
        /\ c # d
        /\ pc[c] = "done" /\ att[c].outcome.kind = "ok"
        /\ pc[d] = "done" /\ att[d].outcome = Resolved(cache)
        /\ pc[r] = "done" /\ ~acquired[r]

\* C13: a call whose refresh failed, with whichever error, answers with
\* status 500 and an empty body, never with a Credential; a call that
\* answers with a Credential does not carry status 500.
FailureIsServerError ==
    \A c \in Callers :
        pc[c] = "done" =>
            /\ att[c].outcome.kind = "err" =>
                  (result[c].status = 500 /\ result[c].body = EmptyBody)
            /\ result[c].body.kind = "json" => result[c].status # 500
            /\ result[c].status = 500 => att[c].outcome.kind = "err"

\* With a Credential in the cache, one call failed on an invalid response and
\* another because no browser could be launched; both answered 500.
FailureWitness ==
    \E b, c \in Callers :
        /\ cache.kind = "json"
        /\ pc[b] = "done" /\ pc[c] = "done"
        /\ att[b].outcome = Rejected("Invalid response from Spotify.")
        /\ att[c].outcome = Rejected("Failed to launch browser")
        /\ result[b] = ErrResult /\ result[c] = ErrResult

\* C15: a get(false) resumed with the lock returns the cached Credential, in
\* that step and without an attempt, when the cache is valid at the re-check;
\* it starts an attempt exactly when the cache is invalid at the re-check.
DoubleCheck ==
    [][\A c \in Callers :
          (pc[c] = "acq" /\ pc'[c] # "acq" /\ ~force[c]) =>
              IF Valid(cache, now)
              THEN /\ pc'[c] = "done"
                   /\ result'[c] = OkResult(cache)
                   /\ UNCHANGED <<att, started, cache>>
              ELSE /\ pc'[c] = "fetch"
                   /\ started' = Append(started, c)
                   /\ att'[c].stage = "launch"]_vars

\* A get(false) found the cache invalid, queued behind the holder, and on
\* being granted the lock answered with the Credential the holder had fetched.
DoubleCheckWitness ==
    \E c, d \in Callers :
        /\ ~force[c] /\ acquired[c] /\ pc[c] = "done"
        /\ \E i \in 1..Len(grants) : grants[i] = c
        /\ recheck[c] = "valid" /\ att[c].stage = "none"
        /\ att[d].outcome.kind = "ok"
        /\ result[c] = OkResult(att[d].outcome.data)

\* C16: the locked flag is set exactly while some call holds the lock or has
\* been handed it, and waiters exist only while it is set; a release with a
\* waiter hands the lock to the head of the queue with the flag still set, a
\* call reaching acquire() while the flag is set is queued, and a release
\* without a waiter clears the flag.
MutexHandOff ==
    [][/\ locked' <=> Holders' # {}
       /\ waiters' # <<>> => locked'
       /\ Len(waiters') < Len(waiters) =>
             /\ locked /\ locked'
             /\ pc'[Head(waiters)] = "acq"
             /\ waiters' = Tail(waiters)
       /\ \A c \in Callers :
             /\ (pc[c] = "idle" /\ acquired'[c] /\ locked) =>
                   (pc'[c] = "wait" /\ waiters' = Append(waiters, c))
             /\ (pc[c] \in {"acq", "fetch"} /\ pc'[c] = "done" /\ waiters = <<>>)
                   => ~locked']_vars

\* Caller 2 has been handed the lock and not yet resumed; caller 3 called
\* acquire() after that release and is queued.
MutexHandOffWitness ==
    /\ grants = <<2>>
    /\ pc[2] = "acq"
    /\ waiters = <<3>>
    /\ ~early[3]
    /\ locked

\* C17 as stated: when the listener has read the token request's response
\* and the response was missing, not ok or unparseable, the attempt, if
\* still pending, settles in that step with "Invalid response"; the only
\* other way the listener ends is by resolving with the payload.
InvalidResponseSettles ==
    [][\A c \in Callers : \A k \in Events :
          (att[c].ev[k] # "done" /\ att'[c].ev[k] = "done"
               /\ att[c].outcome = Pending) =>
              \/ att'[c].outcome = Rejected("Invalid response from Spotify.")
              \/ att'[c].outcome.kind = "ok"]_vars

\* C18 as stated: after browser.newPage() failed the attempt has closed the
\* browser once and rejected once and does nothing else: no timer, no
\* listener, no navigation, no second close.
NewPageFailureShortCircuits ==
    \A c \in Callers :
        att[c].stage = "threw" =>
            /\ att[c].timer = "none"
            /\ ~att[c].listening
            /\ att[c].goto = "none"
            /\ att[c].closes = 1
            /\ att[c].settles = 1

\* C19: a step of one attempt's timer, listener or goto handler changes that
\* attempt's record only: no other attempt's session, flags or outcome, not
\* the cache, no call's answer and not the lock.
SessionIsolation ==
    [][\A c \in Callers :
          (att[c].stage # "none" /\ att'[c] # att[c]) =>
              /\ \A d \in Callers \ {c} : att'[d] = att[d]
              /\ UNCHANGED <<cache, pc, result, locked, waiters, started>>]_vars

\* The timer of a settled attempt, whose call has returned, fired and closed
\* its browser a second time while the next attempt, set up before that, is
\* pending with its browser open.
SessionIsolationWitness ==
    \E c, d \in Callers :
        /\ c # d
        /\ pc[c] = "done" /\ att[c].outcome.kind = "ok"
        /\ att[c].timer = "fired" /\ att[c].closes = 2
        /\ att[d].stage = "run" /\ att[d].due = att[c].due
        /\ att[d].outcome = Pending /\ att[d].closes = 0

\* The calls that fetched successfully and have resumed, by position in the
\* order in which the fetches were started.
Delivered ==
    {i \in 1..Len(started) :
        pc[started[i]] = "done" /\ att[started[i]].outcome.kind = "ok"}

\* C20: the cache is empty until a fetch has succeeded and its call has
\* resumed, and from then on holds the payload of the latest such fetch in
\* start order; a failed attempt never writes it.
CacheIsLatestSuccess ==
    IF Delivered = {}
    THEN cache = Undefined
    ELSE LET last == CHOOSE i \in Delivered : \A j \in Delivered : j <= i
         IN  cache = att[started[last]].outcome.data

\* The cache still holds the first fetch's payload after a later attempt was
\* rejected by its deadline, read its token response afterwards, and its
\* call answered with the error.
CacheIsLatestWitness ==
    /\ Len(started) >= 2
    /\ LET a == started[1]
           d == started[2]
       IN  /\ att[a].outcome = Resolved(cache)
           /\ att[d].outcome = Rejected("Token fetch exceeded deadline")
           /\ att[d].ev[1] = "done" /\ att[d].settles = 2
           /\ pc[d] = "done"

\* ---------------------------------------------------------------- liveness
\* The behaviours checked for progress: at most LiveSessions attempts get a
\* browser, and, the clock being bounded, a page is opened only while the
\* clock can still reach the deadline of the timer armed with it.
LaunchDoneLive(c, ok) ==
    /\ LaunchDone(c, ok)
    /\ ok => Cardinality(Sessions) < LiveSessions

NewPageDoneLive(c, ok) ==
    /\ NewPageDone(c, ok)
    /\ att'[c].stage = "run" => att'[c].due <= MaxTicks * Deadline

NextLive ==
    \/ \E c \in Callers, f \in BOOLEAN : Call(c, f)
    \/ \E c \in Callers : Resume(c)
    \/ \E c \in Callers : RefreshDone(c)
    \/ \E c \in Callers, ok \in BOOLEAN : LaunchDoneLive(c, ok)
    \/ \E c \in Callers, ok \in BOOLEAN : NewPageDoneLive(c, ok)
    \/ \E c \in Callers : TimerFire(c)
    \/ \E c \in Callers, k \in Events : TokenRequest(c, k)
    \/ \E c \in Callers, k \in Events, good \in BOOLEAN : ResponseDone(c, k, good)
    \/ \E c \in Callers, k \in Events :
          \E j \in {JsonNull} \cup Payloads(c, now) : JsonDone(c, k, j)
    \/ \E c \in Callers : GotoFailed(c)
    \/ Advance

\* Time passes and Node runs every due timer and every resumable await;
\* playwright's launch() and newPage() settle one way or the other (they
\* carry their own timeout). Nothing is assumed of the page: the token
\* request may never be seen and page.goto() may never settle.
Fairness ==
    /\ WF_vars(Advance)
    /\ \A c \in Callers :
          /\ WF_vars(TimerFire(c))
          /\ WF_vars(Resume(c))
          /\ WF_vars(RefreshDone(c))
          /\ WF_vars(\E ok \in BOOLEAN : LaunchDoneLive(c, ok))
          /\ WF_vars(\E ok \in BOOLEAN : NewPageDoneLive(c, ok))

SpecLive == Init /\ [][NextLive]_vars /\ Fairness

\* C14: every attempt that opened its session and page eventually settles,
\* whatever the page does, and has closed the browser by then; every call
\* that holds the lock eventually returns, and every call waiting for the
\* lock is eventually granted it.
BoundedAcquisition ==
    \A c \in Callers :
        /\ (att[c].stage = "run") ~>
              (att[c].outcome # Pending /\ att[c].closes >= 1)
        /\ (pc[c] \in {"acq", "fetch"}) ~> (pc[c] = "done")
        /\ (pc[c] = "wait") ~> (pc[c] \in {"acq", "fetch", "done"})

\* An attempt whose token response did not parse was settled by its deadline,
\* its call returned, and the call waiting behind it was granted the lock.
BoundedAcquisitionWitness ==
    \E c, d \in Callers :
        /\ att[c].ev[1] = "done" /\ att[c].settles = 1
        /\ att[c].outcome = Rejected("Token fetch exceeded deadline")
        /\ att[c].closes = 2
        /\ pc[c] = "done"
        /\ Len(grants) >= 1 /\ grants[1] = d
        /\ pc[d] = "done"

====
